---- MODULE Spec2Model ----
(***************************************************************************)
(* Weather tool gateway (src/server.py) and its orchestrating client       *)
(* (src/client.py).                                                        *)
(*                                                                         *)
(* Texts are TLA+ strings, handled character by character with Len,        *)
(* SubSeq and \o.  Python values (str, int, bool, None, dict) are tagged   *)
(* records, so that a JSON text and the value it decodes to are different  *)
(* things.  A non-ASCII character of the source is written as one ASCII    *)
(* stand-in character; NonAsciiEscape gives the code point of the ones     *)
(* that pass through json.dumps.                                           *)
(***************************************************************************)
EXTENDS Integers, Sequences, FiniteSets, TLC

(***************************************************************************)
(* Python values                                                           *)
(***************************************************************************)
PyStr(s) == [kind |-> "str", s |-> s]
PyInt(n) == [kind |-> "int", n |-> n]
PyBool(b) == [kind |-> "bool", b |-> b]
PyNone == [kind |-> "None"]
\* a dict keeps its items in insertion order, one item per key
PyDict(items) == [kind |-> "dict", items |-> items]
Item(k, v) == [k |-> k, v |-> v]

\* 'k in d'
DictHas(d, k) == \E i \in 1..Len(d.items) : d.items[i].k = k

\* d[k], for a key that is present
DictGet(d, k) == d.items[CHOOSE i \in 1..Len(d.items) : d.items[i].k = k].v

\* d[k] = v: an existing key keeps its place, a new key goes last
DictSet(d, k, v) ==
    IF DictHas(d, k)
    THEN PyDict([i \in 1..Len(d.items) |->
                    IF d.items[i].k = k THEN Item(k, v) ELSE d.items[i]])
    ELSE PyDict(Append(d.items, Item(k, v)))

\* the dict left by d.pop(k)
DictWithout(d, k) == PyDict(SelectSeq(d.items, LAMBDA it : it.k # k))

DictKeys(d) == {d.items[i].k : i \in 1..Len(d.items)}

(***************************************************************************)
(* Characters and strings                                                  *)
(***************************************************************************)
CharAt(s, i) == SubSeq(s, i, i)

\* str.startswith
StartsWith(s, p) == Len(s) >= Len(p) /\ SubSeq(s, 1, Len(p)) = p

\* the characters str.strip() and the JSON scanner treat as whitespace
Whitespace == {" ", "\t", "\n", "\r"}

RECURSIVE LStrip(_)
LStrip(s) ==
    IF Len(s) > 0 /\ CharAt(s, 1) \in Whitespace
    THEN LStrip(SubSeq(s, 2, Len(s)))
    ELSE s

RECURSIVE RStrip(_)
RStrip(s) ==
    IF Len(s) > 0 /\ CharAt(s, Len(s)) \in Whitespace
    THEN RStrip(SubSeq(s, 1, Len(s) - 1))
    ELSE s

\* str.strip()
Strip(s) == RStrip(LStrip(s))

\* str.lower(), for the ASCII letters
UpperCase == "ABCDEFGHIJKLMNOPQRSTUVWXYZ"
LowerCase == "abcdefghijklmnopqrstuvwxyz"

LowerChar(c) ==
    IF \E i \in 1..Len(UpperCase) : CharAt(UpperCase, i) = c
    THEN CharAt(LowerCase, CHOOSE i \in 1..Len(UpperCase) : CharAt(UpperCase, i) = c)
    ELSE c

RECURSIVE Lower(_)
Lower(s) ==
    IF Len(s) = 0 THEN ""
    ELSE LowerChar(CharAt(s, 1)) \o Lower(SubSeq(s, 2, Len(s)))

Digits == <<"0", "1", "2", "3", "4", "5", "6", "7", "8", "9">>

IsDigit(c) == \E d \in 1..10 : Digits[d] = c

DigitValue(c) == (CHOOSE d \in 1..10 : Digits[d] = c) - 1

\* str(n) for n >= 0
RECURSIVE NatToStr(_)
NatToStr(n) ==
    IF n < 10 THEN Digits[n + 1]
    ELSE NatToStr(n \div 10) \o Digits[(n % 10) + 1]

IntToStr(n) == IF n < 0 THEN "-" \o NatToStr(0 - n) ELSE NatToStr(n)

\* stand-ins of the non-ASCII characters of the messages of fetch_weather,
\* with the escape json.dumps (ensure_ascii) writes for each
NonAsciiEscape ==
    << Item("#", "\\u9519"), Item("@", "\\u8bef"),
       Item("$", "\\u8bf7"), Item("%", "\\u6c42"),
       Item("^", "\\u5931"), Item("&", "\\u8d25") >>

IsNonAscii(c) == \E i \in 1..Len(NonAsciiEscape) : NonAsciiEscape[i].k = c

EscapeOf(c) ==
    NonAsciiEscape[CHOOSE i \in 1..Len(NonAsciiEscape) : NonAsciiEscape[i].k = c].v

IsEscape(e) == \E i \in 1..Len(NonAsciiEscape) : NonAsciiEscape[i].v = e

UnescapeOf(e) ==
    NonAsciiEscape[CHOOSE i \in 1..Len(NonAsciiEscape) : NonAsciiEscape[i].v = e].k

(***************************************************************************)
(* json.dumps, with the default separators and ensure_ascii                *)
(***************************************************************************)
EscapeChar(c) ==
    IF c = "\"" THEN "\\\""
    ELSE IF c = "\\" THEN "\\\\"
    ELSE IF c = "\n" THEN "\\n"
    ELSE IF IsNonAscii(c) THEN EscapeOf(c)
    ELSE c

\* the positions from i on where s has a character of the set C
PositionsOf(s, i, C) == {j \in i..Len(s) : CharAt(s, j) \in C}

Least(S) == CHOOSE j \in S : \A k \in S : j <= k

\* the characters json.dumps does not copy as they are
Escaped == {"\"", "\\", "\n"} \cup {NonAsciiEscape[i].k : i \in 1..Len(NonAsciiEscape)}

\* s with its characters escaped: the run up to the next escaped character
\* is copied
RECURSIVE EscapeStr(_)
EscapeStr(s) ==
    LET special == PositionsOf(s, 1, Escaped) IN
    IF special = {} THEN s
    ELSE LET j == Least(special) IN
         SubSeq(s, 1, j - 1) \o EscapeChar(CharAt(s, j))
            \o EscapeStr(SubSeq(s, j + 1, Len(s)))

Quote(s) == "\"" \o EscapeStr(s) \o "\""

RECURSIVE JsonDumps(_)
RECURSIVE DumpItems(_)
DumpItems(items) ==
    IF Len(items) = 0 THEN ""
    ELSE Quote(items[1].k) \o ": " \o JsonDumps(items[1].v)
         \o (IF Len(items) > 1 THEN ", " \o DumpItems(Tail(items)) ELSE "")

JsonDumps(v) ==
    CASE v.kind = "str" -> Quote(v.s)
      [] v.kind = "int" -> IntToStr(v.n)
      [] v.kind = "bool" -> IF v.b THEN "true" ELSE "false"
      [] v.kind = "None" -> "null"
      [] v.kind = "dict" -> "{" \o DumpItems(v.items) \o "}"

(***************************************************************************)
(* json.loads, for the JSON of strings, integers, true/false/null and      *)
(* objects.  A scan result is [ok, val, pos]: pos is the first character   *)
(* not yet read.                                                           *)
(***************************************************************************)
ScanFail == [ok |-> FALSE, val |-> PyNone, pos |-> 0]
ScanOk(v, p) == [ok |-> TRUE, val |-> v, pos |-> p]

RECURSIVE SkipWs(_, _)
SkipWs(s, i) ==
    IF i <= Len(s) /\ CharAt(s, i) \in Whitespace THEN SkipWs(s, i + 1) ELSE i

\* the characters that end a run of plain characters in a string literal
StringSpecial == {"\"", "\\", "\n", "\t", "\r"}

\* the characters of a string literal from position i on; acc is what was
\* read so far.  The run up to the next quote, backslash or control
\* character is taken as it is.
RECURSIVE ScanString(_, _, _)
ScanString(s, i, acc) ==
    LET special == PositionsOf(s, i, StringSpecial) IN
    IF special = {} THEN ScanFail
    ELSE LET j == Least(special)
             c == CharAt(s, j)
             run == acc \o SubSeq(s, i, j - 1)
         IN IF c = "\"" THEN ScanOk(PyStr(run), j + 1)
            ELSE IF c = "\\" THEN
                 IF j + 1 > Len(s) THEN ScanFail
                 ELSE LET e == CharAt(s, j + 1) IN
                      IF e = "\"" \/ e = "\\" THEN ScanString(s, j + 2, run \o e)
                      ELSE IF e = "n" THEN ScanString(s, j + 2, run \o "\n")
                      ELSE IF e = "u" /\ j + 5 <= Len(s) /\ IsEscape(SubSeq(s, j, j + 5))
                           THEN ScanString(s, j + 6, run \o UnescapeOf(SubSeq(s, j, j + 5)))
                      ELSE ScanFail
            ELSE ScanFail

\* the digits of an integer from position i on; n is their value so far
RECURSIVE ScanDigits(_, _, _)
ScanDigits(s, i, n) ==
    IF i <= Len(s) /\ IsDigit(CharAt(s, i))
    THEN ScanDigits(s, i + 1, 10 * n + DigitValue(CharAt(s, i)))
    ELSE [n |-> n, pos |-> i]

ScanNat(s, i) ==
    IF i > Len(s) \/ ~IsDigit(CharAt(s, i)) THEN ScanFail
    ELSE IF CharAt(s, i) = "0" THEN ScanOk(PyInt(0), i + 1)
    ELSE LET r == ScanDigits(s, i, 0) IN ScanOk(PyInt(r.n), r.pos)

ScanInt(s, i) ==
    IF CharAt(s, i) = "-"
    THEN LET r == ScanNat(s, i + 1) IN
         IF r.ok THEN ScanOk(PyInt(0 - r.val.n), r.pos) ELSE ScanFail
    ELSE ScanNat(s, i)

RECURSIVE ScanValue(_, _)
RECURSIVE ScanMembers(_, _, _)

\* the members of an object from position i (a key) on; d is the dict so far
ScanMembers(s, i, d) ==
    IF i > Len(s) \/ CharAt(s, i) # "\"" THEN ScanFail
    ELSE LET key == ScanString(s, i + 1, "") IN
         IF ~key.ok THEN ScanFail
         ELSE LET colon == SkipWs(s, key.pos) IN
              IF colon > Len(s) \/ CharAt(s, colon) # ":" THEN ScanFail
              ELSE LET val == ScanValue(s, SkipWs(s, colon + 1)) IN
                   IF ~val.ok THEN ScanFail
                   ELSE LET d2 == DictSet(d, key.val.s, val.val)
                            sep == SkipWs(s, val.pos)
                        IN IF sep > Len(s) THEN ScanFail
                           ELSE IF CharAt(s, sep) = "}" THEN ScanOk(d2, sep + 1)
                           ELSE IF CharAt(s, sep) = ","
                                THEN ScanMembers(s, SkipWs(s, sep + 1), d2)
                           ELSE ScanFail

ScanValue(s, i) ==
    IF i > Len(s) THEN ScanFail
    ELSE LET c == CharAt(s, i) IN
         IF c = "{" THEN
              LET j == SkipWs(s, i + 1) IN
              IF j <= Len(s) /\ CharAt(s, j) = "}"
              THEN ScanOk(PyDict(<<>>), j + 1)
              ELSE ScanMembers(s, j, PyDict(<<>>))
         ELSE IF c = "\"" THEN ScanString(s, i + 1, "")
         ELSE IF c = "-" \/ IsDigit(c) THEN ScanInt(s, i)
         ELSE IF StartsWith(SubSeq(s, i, Len(s)), "null") THEN ScanOk(PyNone, i + 4)
         ELSE IF StartsWith(SubSeq(s, i, Len(s)), "true") THEN ScanOk(PyBool(TRUE), i + 4)
         ELSE IF StartsWith(SubSeq(s, i, Len(s)), "false") THEN ScanOk(PyBool(FALSE), i + 5)
         ELSE ScanFail

\* JsonLoads, if a text that is not JSON were taken for an empty object
JsonLoadsLenient(s) ==
    LET r == ScanValue(s, SkipWs(s, 1)) IN
    IF r.ok /\ SkipWs(s, r.pos) = Len(s) + 1
    THEN [ok |-> TRUE, val |-> r.val]
    ELSE [ok |-> TRUE, val |-> PyDict(<<>>)]

\* json.loads(s): ok is FALSE where it raises json.JSONDecodeError
JsonLoads(s) ==
    LET r == ScanValue(s, SkipWs(s, 1)) IN
    IF r.ok /\ SkipWs(s, r.pos) = Len(s) + 1
    THEN [ok |-> TRUE, val |-> r.val]
    ELSE [ok |-> FALSE, val |-> PyNone]

(***************************************************************************)
(* Bounds and input sets                                                   *)
(***************************************************************************)
\* the longest response body, in lines, that comes with status 200
MaxLines == 2

\* the longest response body, in lines, that comes with another status
MaxOtherLines == 1

\* the number of requests the Gateway serves
MaxRequests == 2

\* process_query invocations: ChatTask is the one chat_loop runs
Tasks == {"chat_loop", "other"}
ChatTask == "chat_loop"

Requests == 1..MaxRequests

Queries == {"What's the weather in A?", "hi"}

\* the lines input() may give chat_loop
InputLines == {"What's the weather in A?", " hi ", "quit", " Quit "}

\* the errors a chat.completions.create call may raise
ModelErrors == {"APIConnectionError"}

\* the argument objects a model may generate: every subset of the city keys,
\* some with another key, each key with its own value
ArgKeys == <<Item("city", PyStr("A")), Item("city_name", PyStr("B")),
             Item("location", PyStr("C")), Item("units", PyStr("metric"))>>

ArgObjects ==
    {PyDict(SelectSeq(ArgKeys, LAMBDA it : it.k \in ks)) :
        ks \in (SUBSET {"city", "city_name", "location"})
                \cup {{"units"}, {"city_name", "location", "units"}}}
    \cup {PyDict(<<Item("location", PyStr("C")), Item("city_name", PyStr("B"))>>)}

\* argument payloads that are not JSON, and one that is JSON but no object
MalformedArgTexts == {"", "{city: A}", "{\"city\": \"A\""}
NonObjectArgTexts == {"7"}

ArgTexts == {JsonDumps(d) : d \in ArgObjects} \cup MalformedArgTexts
            \cup NonObjectArgTexts

ToolCall(id, name, arguments) ==
    [id |-> id, type |-> "function",
     function |-> [name |-> name, arguments |-> arguments]]

AssistantMessage(content, tool_calls) ==
    [role |-> "assistant", content |-> content, tool_calls |-> tool_calls]

Choice(finish_reason, message) ==
    [finish_reason |-> finish_reason, message |-> message]

\* the choices the model may return to the first completion request
FirstChoices ==
    {Choice("stop", AssistantMessage(PyStr("Hello"), <<>>)),
     Choice("length",
            AssistantMessage(PyStr("It is"), <<ToolCall("call_5", "query_weather", "{\"city\": \"A\"}")>>))}
    \cup {Choice("tool_calls",
                 AssistantMessage(PyNone, <<ToolCall("call_1", "query_weather", a)>>)) :
            a \in ArgTexts}
    \cup {Choice("tool_calls",
                 AssistantMessage(PyNone, <<ToolCall("call_2", "query_weather", "{\"city\": \"A\"}"),
                                            ToolCall("call_3", "query_weather", "{\"city\": \"B\"}")>>)),
          Choice("tool_calls",
                 AssistantMessage(PyNone, <<ToolCall("call_4", "get_time", "{\"location\": \"C\"}")>>))}

\* the choices the model may return to the second completion request
FinalChoices ==
    {Choice("stop", AssistantMessage(PyStr("It is 20 degrees in A"), <<>>)),
     Choice("tool_calls",
            AssistantMessage(PyNone, <<ToolCall("call_9", "query_weather", "{\"city\": \"A\"}")>>))}

\* what two process_query calls that run at the same time are given: fewer
\* choices and responses, with call ids that tell the calls apart
ConcurrentFirstChoices ==
    {Choice("stop", AssistantMessage(PyStr("Hello"), <<>>)),
     Choice("tool_calls",
            AssistantMessage(PyNone, <<ToolCall("call_1", "query_weather", "{\"city\": \"A\"}")>>)),
     Choice("tool_calls",
            AssistantMessage(PyNone, <<ToolCall("call_2", "query_weather", "{\"city\": \"A\"}"),
                                       ToolCall("call_3", "query_weather", "{\"city\": \"B\"}")>>))}

ConcurrentResponses ==
    {[status_code |-> 200, lines |-> <<"data: ********...", "data: {\"temp\": 20}">>],
     [status_code |-> 200, lines |-> <<"data:{\"temp\":21}  ">>],
     [status_code |-> 404, lines |-> <<>>]}

\* response lines, as httpx's aiter_lines gives them (no line ending)
ResponseLines ==
    {"data: ********...",
     "data: {\"temp\": 20}",
     "data:{\"temp\":21}  ",
     "data:   ",
     "{\"temp\": 22}",
     "data: data: {\"temp\": 23}",
     "data: {\"error\": \"HTTP \\u9519\\u8bef: 404\"}"}

RECURSIVE SeqsUpTo(_, _)
SeqsUpTo(S, n) ==
    IF n = 0 THEN {<<>>}
    ELSE LET shorter == SeqsUpTo(S, n - 1) IN
         shorter \cup {Append(q, e) : q \in {t \in shorter : Len(t) = n - 1}, e \in S}

OtherStatuses == {204, 301, 404, 500}

\* what the GET of call_tool may come back with
GatewayResponses ==
    [status_code : {200}, lines : SeqsUpTo(ResponseLines, MaxLines)]
    \cup [status_code : OtherStatuses, lines : SeqsUpTo(ResponseLines, MaxOtherLines)]

\* the transport failures of the GET of call_tool
TransportErrors == {"ReadTimeout", "ConnectError"}

\* the cities the Gateway is asked for
Cities == {"A", "Atlantis"}

UpstreamResponse(status_code, body) ==
    [kind |-> "response", status_code |-> status_code, body |-> body,
     type |-> "", message |-> ""]

UpstreamException(type, message) ==
    [kind |-> "exception", status_code |-> 0, body |-> "",
     type |-> type, message |-> message]

\* what the upstream provider's GET may come back with
UpstreamOutcomes ==
    {UpstreamResponse(200, "{\"temp\": 20}"),
     UpstreamResponse(200, "{\"name\":\"A\",\"cod\":200}"),
     UpstreamResponse(200, "<html>"),
     UpstreamResponse(200, ""),
     UpstreamResponse(404, "{\"cod\": \"404\", \"message\": \"city not found\"}"),
     UpstreamResponse(500, ""),
     UpstreamException("ReadTimeout", ""),
     UpstreamException("ConnectError", "All connection attempts failed")}

(***************************************************************************)
(* State                                                                   *)
(***************************************************************************)
VARIABLES
    pc,            \* per task: where its process_query is
    query,         \* per task: the argument 'query'
    listed,        \* per task: the tools its list_tools call returned
    completions,   \* per task: the choices the model answered with
    messages,      \* per task: the local list 'messages'
    content,       \* per task: the local 'content', the first choice
    args,          \* per task: the dict 'tool_args' / 'args' of call_tool
    response,      \* per task: what the GET of call_tool came back with
    linesRead,     \* per task: the lines the loop of call_tool has taken
    result,        \* per task: the value call_tool returned
    returned,      \* per task: the value process_query returned
    raised,        \* per task: the exception process_query raised
    modelCalls,    \* per task: the chat.completions.create calls it made
    gatewayCalls,  \* per task: the GETs it sent to the Gateway
    lastInput,     \* chat_loop: the line input() gave last
    printed,       \* chat_loop: what its last step printed
    previous,      \* chat_loop: how its previous process_query ended
    gw             \* per request: the Gateway's handling of it

clientVars == <<pc, query, listed, completions, messages, content, args, response, linesRead, result,
                returned, raised, modelCalls, gatewayCalls, lastInput, printed, previous>>
loopVars == <<lastInput, printed, previous>>
vars == <<pc, query, listed, completions, messages, content, args, response, linesRead, result,
          returned, raised, modelCalls, gatewayCalls, lastInput, printed, previous, gw>>

NoChoice == Choice("", AssistantMessage(PyNone, <<>>))
NoResponse == [status_code |-> 0, lines |-> <<>>]
NoException == [type |-> "", message |-> ""]
Exception(type, message) == [type |-> type, message |-> message]
\* 'nothing yet', which is not a Python value
Unset == [kind |-> "unset"]

(***************************************************************************)
(* FakeSession                                                             *)
(***************************************************************************)
\* the messages of the two ValueErrors of call_tool (ASCII stand-ins)
MissingCityMessage == "missing 'city' in the tool arguments"
NoWeatherDataMessage == "no valid weather data received from the server"

\* ListTools, if the schema did not require city
ListToolsNothingRequired ==
    << [name |-> "query_weather",
        description |-> "query the weather by the English name of a city",
        inputSchema |->
            [type |-> "object",
             properties |-> [city |-> [type |-> "string",
                                       description |-> "city name (English)"]],
             required |-> <<>>]] >>

ListTools ==
    << [name |-> "query_weather",
        description |-> "query the weather by the English name of a city",
        inputSchema |->
            [type |-> "object",
             properties |-> [city |-> [type |-> "string",
                                       description |-> "city name (English)"]],
             required |-> <<"city">>]] >>

\* NormalizeArgs, if it supplied a city where the arguments name none
NormalizeArgsDefault(a) ==
    IF DictHas(a, "city_name")
    THEN DictSet(DictWithout(a, "city_name"), "city", DictGet(a, "city_name"))
    ELSE IF DictHas(a, "location")
    THEN DictSet(DictWithout(a, "location"), "city", DictGet(a, "location"))
    ELSE IF ~DictHas(a, "city") THEN DictSet(a, "city", PyStr("Beijing"))
    ELSE a

\* NormalizeArgs, if it looked for 'location' before 'city_name'
NormalizeArgsLocationFirst(a) ==
    IF DictHas(a, "location")
    THEN DictSet(DictWithout(a, "location"), "city", DictGet(a, "location"))
    ELSE IF DictHas(a, "city_name")
    THEN DictSet(DictWithout(a, "city_name"), "city", DictGet(a, "city_name"))
    ELSE a

\* the renaming of the synonyms of 'city'
NormalizeArgs(a) ==
    IF DictHas(a, "city_name")
    THEN DictSet(DictWithout(a, "city_name"), "city", DictGet(a, "city_name"))
    ELSE IF DictHas(a, "location")
    THEN DictSet(DictWithout(a, "location"), "city", DictGet(a, "location"))
    ELSE a

\* RaisesForStatus, if only the 4xx and 5xx statuses raised
RaisesForStatusErrorsOnly(status_code) == status_code >= 400 /\ status_code <= 599

\* response.raise_for_status() raises
RaisesForStatus(status_code) == ~(status_code >= 200 /\ status_code <= 299)

\* ParseLines, if it cut "data: " (six characters) off the line
RECURSIVE ParseLinesSixOff(_, _)
ParseLinesSixOff(lines, i) ==
    IF i > Len(lines) THEN [found |-> FALSE, value |-> PyNone, read |-> Len(lines)]
    ELSE LET line == lines[i] IN
         IF StartsWith(line, "data:")
         THEN LET data == Strip(SubSeq(line, 7, Len(line))) IN
              IF data = "" THEN ParseLinesSixOff(lines, i + 1)
              ELSE LET parsed == JsonLoads(data) IN
                   IF parsed.ok
                   THEN [found |-> TRUE, value |-> parsed.val, read |-> i]
                   ELSE ParseLinesSixOff(lines, i + 1)
         ELSE ParseLinesSixOff(lines, i + 1)

\* ParseLines, if it returned the text of a data line that is not JSON
RECURSIVE ParseLinesKeepText(_, _)
ParseLinesKeepText(lines, i) ==
    IF i > Len(lines) THEN [found |-> FALSE, value |-> PyNone, read |-> Len(lines)]
    ELSE LET line == lines[i] IN
         IF StartsWith(line, "data:")
         THEN LET data == Strip(SubSeq(line, 6, Len(line))) IN
              IF data = "" THEN ParseLinesKeepText(lines, i + 1)
              ELSE LET parsed == JsonLoads(data) IN
                   IF parsed.ok
                   THEN [found |-> TRUE, value |-> parsed.val, read |-> i]
                   ELSE [found |-> TRUE, value |-> PyStr(data), read |-> i]
         ELSE ParseLinesKeepText(lines, i + 1)

\* the loop over response.aiter_lines(), from line i on: the first data line
\* that json.loads decodes ends it
RECURSIVE ParseLines(_, _)
ParseLines(lines, i) ==
    IF i > Len(lines) THEN [found |-> FALSE, value |-> PyNone, read |-> Len(lines)]
    ELSE LET line == lines[i] IN
         IF StartsWith(line, "data:")
         THEN LET data == Strip(SubSeq(line, 6, Len(line))) IN
              IF data = "" THEN ParseLines(lines, i + 1)
              ELSE LET parsed == JsonLoads(data) IN
                   IF parsed.ok
                   THEN [found |-> TRUE, value |-> parsed.val, read |-> i]
                   ELSE ParseLines(lines, i + 1)
         ELSE ParseLines(lines, i + 1)

(***************************************************************************)
(* MCPClient.process_query                                                 *)
(***************************************************************************)
AvailableTools ==
    [i \in 1..Len(ListTools) |->
        [type |-> "function",
         function |-> [name |-> ListTools[i].name,
                       description |-> ListTools[i].description,
                       input_schema |-> ListTools[i].inputSchema]]]

\* NoTools, if the second call passed the catalog again
NoToolsButCatalog == AvailableTools

\* the 'tools' of a call that passes none
NoTools == <<>>

ModelCall(msgs, tools) == [messages |-> msgs, tools |-> tools]

UserMessage(text) == [role |-> "user", content |-> PyStr(text)]

\* ToolMessage, if it left the call id out
ToolMessageUntagged(text, id) == [role |-> "tool", content |-> text, tool_call_id |-> ""]

ToolMessage(text, id) == [role |-> "tool", content |-> text, tool_call_id |-> id]

Raise(p, e) ==
    /\ pc' = [pc EXCEPT ![p] = "raised"]
    /\ raised' = [raised EXCEPT ![p] = e]

Return(p, v) ==
    /\ pc' = [pc EXCEPT ![p] = "returned"]
    /\ returned' = [returned EXCEPT ![p] = v]

\* IsToolCall, if it took every finish_reason but "stop" for a tool call
IsToolCallNotStop(choice) == choice.finish_reason # "stop"

\* the test of the first choice's finish_reason
IsToolCall(choice) == choice.finish_reason = "tool_calls"

\* ProcessQuery, if the conversation were one list on the client object
ProcessQueryOneConversation(p, text) ==
    /\ pc[p] = "idle"
    /\ query' = [query EXCEPT ![p] = text]
    /\ listed' = [listed EXCEPT ![p] = ListTools]
    /\ completions' = [completions EXCEPT ![p] = <<>>]
    /\ messages' = [q \in Tasks |-> <<UserMessage(text)>>]
    /\ modelCalls' = [modelCalls EXCEPT
                        ![p] = <<ModelCall(<<UserMessage(text)>>, AvailableTools)>>]
    /\ gatewayCalls' = [gatewayCalls EXCEPT ![p] = <<>>]
    /\ content' = [content EXCEPT ![p] = NoChoice]
    /\ args' = [args EXCEPT ![p] = Unset]
    /\ response' = [response EXCEPT ![p] = NoResponse]
    /\ linesRead' = [linesRead EXCEPT ![p] = 0]
    /\ result' = [result EXCEPT ![p] = Unset]
    /\ returned' = [returned EXCEPT ![p] = Unset]
    /\ raised' = [raised EXCEPT ![p] = NoException]
    /\ pc' = [pc EXCEPT ![p] = "AwaitingFirstCompletion"]
    /\ UNCHANGED gw

\* ProcessQuery, if the conversation kept the user message of the line read
\* before this one
ProcessQueryCarry(p, text) ==
    LET seeded == IF lastInput = "" THEN <<UserMessage(text)>>
                  ELSE <<UserMessage(Strip(lastInput)), UserMessage(text)>>
    IN
    /\ pc[p] = "idle"
    /\ query' = [query EXCEPT ![p] = text]
    /\ listed' = [listed EXCEPT ![p] = ListTools]
    /\ completions' = [completions EXCEPT ![p] = <<>>]
    /\ messages' = [messages EXCEPT ![p] = seeded]
    /\ modelCalls' = [modelCalls EXCEPT ![p] = <<ModelCall(seeded, AvailableTools)>>]
    /\ gatewayCalls' = [gatewayCalls EXCEPT ![p] = <<>>]
    /\ content' = [content EXCEPT ![p] = NoChoice]
    /\ args' = [args EXCEPT ![p] = Unset]
    /\ response' = [response EXCEPT ![p] = NoResponse]
    /\ linesRead' = [linesRead EXCEPT ![p] = 0]
    /\ result' = [result EXCEPT ![p] = Unset]
    /\ returned' = [returned EXCEPT ![p] = Unset]
    /\ raised' = [raised EXCEPT ![p] = NoException]
    /\ pc' = [pc EXCEPT ![p] = "AwaitingFirstCompletion"]
    /\ UNCHANGED gw

\* process_query is called: the conversation is seeded, the tools listed and
\* the first completion requested
ProcessQuery(p, text) ==
    /\ pc[p] = "idle"
    /\ query' = [query EXCEPT ![p] = text]
    /\ listed' = [listed EXCEPT ![p] = ListTools]
    /\ completions' = [completions EXCEPT ![p] = <<>>]
    /\ messages' = [messages EXCEPT ![p] = <<UserMessage(text)>>]
    /\ modelCalls' = [modelCalls EXCEPT
                        ![p] = <<ModelCall(<<UserMessage(text)>>, AvailableTools)>>]
    /\ gatewayCalls' = [gatewayCalls EXCEPT ![p] = <<>>]
    /\ content' = [content EXCEPT ![p] = NoChoice]
    /\ args' = [args EXCEPT ![p] = Unset]
    /\ response' = [response EXCEPT ![p] = NoResponse]
    /\ linesRead' = [linesRead EXCEPT ![p] = 0]
    /\ result' = [result EXCEPT ![p] = Unset]
    /\ returned' = [returned EXCEPT ![p] = Unset]
    /\ raised' = [raised EXCEPT ![p] = NoException]
    /\ pc' = [pc EXCEPT ![p] = "AwaitingFirstCompletion"]
    /\ UNCHANGED gw

\* the first completion arrives; on a tool call, call_tool runs up to its GET
FirstCompletion(p, choice) ==
    /\ pc[p] = "AwaitingFirstCompletion"
    /\ content' = [content EXCEPT ![p] = choice]
    /\ completions' = [completions EXCEPT ![p] = Append(@, choice)]
    /\ IF IsToolCall(choice)
       THEN LET tool_call == choice.message.tool_calls[1]
                tool_args == JsonLoads(tool_call.function.arguments)
            IN IF ~tool_args.ok
               THEN /\ Raise(p, Exception("JSONDecodeError", ""))
                    /\ UNCHANGED <<args, gatewayCalls, returned>>
               ELSE IF tool_args.val.kind # "dict"
               THEN /\ Raise(p, Exception("TypeError", ""))
                    /\ args' = [args EXCEPT ![p] = tool_args.val]
                    /\ UNCHANGED <<gatewayCalls, returned>>
               ELSE LET normalized == NormalizeArgs(tool_args.val) IN
                    /\ args' = [args EXCEPT ![p] = normalized]
                    /\ IF ~DictHas(normalized, "city")
                       THEN /\ Raise(p, Exception("ValueError", MissingCityMessage))
                            /\ UNCHANGED <<gatewayCalls, returned>>
                       ELSE /\ gatewayCalls' =
                                 [gatewayCalls EXCEPT
                                    ![p] = Append(@, [city |-> DictGet(normalized, "city")])]
                            /\ pc' = [pc EXCEPT ![p] = "AwaitingGateway"]
                            /\ UNCHANGED <<returned, raised>>
       ELSE /\ Return(p, choice.message.content)
            /\ UNCHANGED <<args, gatewayCalls, raised>>
    /\ UNCHANGED <<query, messages, response, linesRead, result, modelCalls, gw>>
    /\ UNCHANGED <<listed, loopVars>>

\* the Gateway's response arrives: the rest of call_tool, then the two
\* appends and the request of the second completion
GatewayResponse(p, resp) ==
    /\ pc[p] = "AwaitingGateway"
    /\ response' = [response EXCEPT ![p] = resp]
    /\ IF RaisesForStatus(resp.status_code)
       THEN /\ Raise(p, Exception("HTTPStatusError", IntToStr(resp.status_code)))
            /\ UNCHANGED <<linesRead, result, messages, modelCalls, returned>>
       ELSE LET parse == ParseLines(resp.lines, 1) IN
            /\ linesRead' = [linesRead EXCEPT ![p] = parse.read]
            /\ IF ~parse.found
               THEN /\ Raise(p, Exception("ValueError", NoWeatherDataMessage))
                    /\ UNCHANGED <<result, messages, modelCalls, returned>>
               ELSE LET tool_call == content[p].message.tool_calls[1]
                        msgs == messages[p] \o
                                  <<content[p].message,
                                    ToolMessage(parse.value, tool_call.id)>>
                    IN /\ result' = [result EXCEPT ![p] = parse.value]
                       /\ messages' = [messages EXCEPT ![p] = msgs]
                       /\ modelCalls' = [modelCalls EXCEPT
                                           ![p] = Append(@, ModelCall(msgs, NoTools))]
                       /\ pc' = [pc EXCEPT ![p] = "AwaitingFinalCompletion"]
                       /\ UNCHANGED <<returned, raised>>
    /\ UNCHANGED <<query, completions, content, args, gatewayCalls, gw>>
    /\ UNCHANGED <<listed, loopVars>>

\* the GET of call_tool fails in the transport (timeout, no connection)
GatewayUnreachable(p, error) ==
    /\ pc[p] = "AwaitingGateway"
    /\ Raise(p, Exception(error, ""))
    /\ UNCHANGED <<query, completions, messages, content, args, response, linesRead, result,
                   returned, modelCalls, gatewayCalls, gw>>
    /\ UNCHANGED <<listed, loopVars>>

\* a chat.completions.create call raises
ModelError(p, error) ==
    /\ pc[p] \in {"AwaitingFirstCompletion", "AwaitingFinalCompletion"}
    /\ Raise(p, Exception(error, "Connection error."))
    /\ UNCHANGED <<query, completions, messages, content, args, response, linesRead, result,
                   returned, modelCalls, gatewayCalls, gw>>
    /\ UNCHANGED <<listed, loopVars>>

\* the second completion arrives
FinalCompletion(p, choice) ==
    /\ pc[p] = "AwaitingFinalCompletion"
    /\ Return(p, choice.message.content)
    /\ completions' = [completions EXCEPT ![p] = Append(@, choice)]
    /\ UNCHANGED <<query, messages, content, args, response, linesRead, result,
                   raised, modelCalls, gatewayCalls, gw>>
    /\ UNCHANGED <<listed, loopVars>>

(***************************************************************************)
(* MCPClient.chat_loop                                                     *)
(***************************************************************************)
NothingPrinted == [kind |-> "", text |-> ""]

\* str(v), for the values process_query returns
PyToStr(v) == IF v.kind = "str" THEN v.s ELSE "None"

\* the two prints of the loop (ASCII stand-ins of their prefixes)
ReplyPrint(v) == [kind |-> "reply", text |-> PyToStr(v)]
ErrorPrint(e) == [kind |-> "error", text |-> e.message]

\* input() gives a line: 'quit' ends the loop, anything else is the query of
\* a process_query
ChatLoopRead(line) ==
    /\ pc[ChatTask] = "idle"
    /\ lastInput' = line
    /\ printed' = NothingPrinted
    /\ UNCHANGED previous
    /\ IF Lower(Strip(line)) = "quit"
       THEN /\ pc' = [pc EXCEPT ![ChatTask] = "exited"]
            /\ UNCHANGED <<query, listed, completions, messages, content, args, response,
                           linesRead, result, returned, raised, modelCalls,
                           gatewayCalls, gw>>
       ELSE ProcessQuery(ChatTask, Strip(line))

\* how the process_query of task p, which has ended, went
HowEnded(p) ==
    IF pc[p] = "raised" THEN "failed"
    ELSE IF result[p] # Unset THEN "answered with the tool"
    ELSE "answered directly"

\* ChatLoopNext, if the loop caught ValueError only
ChatLoopNextValueErrorOnly(p) ==
    /\ pc[p] \in {"returned", "raised"}
    /\ pc' = [pc EXCEPT ![p] = IF pc[p] = "raised" /\ raised[p].type # "ValueError"
                                THEN "exited" ELSE "idle"]
    /\ printed' = IF pc[p] = "returned" THEN ReplyPrint(returned[p])
                  ELSE IF raised[p].type = "ValueError" THEN ErrorPrint(raised[p])
                  ELSE NothingPrinted
    /\ query' = [query EXCEPT ![p] = ""]
    /\ listed' = [listed EXCEPT ![p] = <<>>]
    /\ completions' = [completions EXCEPT ![p] = <<>>]
    /\ messages' = [messages EXCEPT ![p] = <<>>]
    /\ content' = [content EXCEPT ![p] = NoChoice]
    /\ args' = [args EXCEPT ![p] = Unset]
    /\ response' = [response EXCEPT ![p] = NoResponse]
    /\ linesRead' = [linesRead EXCEPT ![p] = 0]
    /\ result' = [result EXCEPT ![p] = Unset]
    /\ returned' = [returned EXCEPT ![p] = Unset]
    /\ raised' = [raised EXCEPT ![p] = NoException]
    /\ modelCalls' = [modelCalls EXCEPT ![p] = <<>>]
    /\ gatewayCalls' = [gatewayCalls EXCEPT ![p] = <<>>]
    /\ previous' = HowEnded(p)
    /\ UNCHANGED <<lastInput, gw>>

\* the reply or the error is printed and the loop goes round; the locals of
\* the process_query that ended are gone
ChatLoopNext(p) ==
    /\ pc[p] \in {"returned", "raised"}
    /\ pc' = [pc EXCEPT ![p] = "idle"]
    /\ printed' = IF pc[p] = "returned" THEN ReplyPrint(returned[p])
                  ELSE ErrorPrint(raised[p])
    /\ query' = [query EXCEPT ![p] = ""]
    /\ listed' = [listed EXCEPT ![p] = <<>>]
    /\ completions' = [completions EXCEPT ![p] = <<>>]
    /\ messages' = [messages EXCEPT ![p] = <<>>]
    /\ content' = [content EXCEPT ![p] = NoChoice]
    /\ args' = [args EXCEPT ![p] = Unset]
    /\ response' = [response EXCEPT ![p] = NoResponse]
    /\ linesRead' = [linesRead EXCEPT ![p] = 0]
    /\ result' = [result EXCEPT ![p] = Unset]
    /\ returned' = [returned EXCEPT ![p] = Unset]
    /\ raised' = [raised EXCEPT ![p] = NoException]
    /\ modelCalls' = [modelCalls EXCEPT ![p] = <<>>]
    /\ gatewayCalls' = [gatewayCalls EXCEPT ![p] = <<>>]
    /\ previous' = HowEnded(p)
    /\ UNCHANGED <<lastInput, gw>>

(***************************************************************************)
(* Tool Gateway: fetch_weather and get_weather                             *)
(***************************************************************************)
\* str(e) of the json.JSONDecodeError of response.json()
JSONDecodeErrorMessage == "Expecting value: line 1 column 1 (char 0)"

ErrorDict(message) == PyDict(<<Item("error", PyStr(message))>>)

\* FetchWeather, if it left response.raise_for_status() out
FetchWeatherNoStatusCheck(outcome) ==
    IF outcome.kind = "exception"
    THEN ErrorDict("$%^&: " \o outcome.message)
    ELSE LET json == JsonLoads(outcome.body) IN
         IF json.ok THEN json.val
         ELSE ErrorDict("$%^&: " \o JSONDecodeErrorMessage)

\* what fetch_weather returns for an outcome of its GET
FetchWeather(outcome) ==
    IF outcome.kind = "exception"
    THEN ErrorDict("$%^&: " \o outcome.message)
    ELSE IF RaisesForStatus(outcome.status_code)
    THEN ErrorDict("HTTP #@: " \o IntToStr(outcome.status_code))
    ELSE LET json == JsonLoads(outcome.body) IN
         IF json.ok THEN json.val
         ELSE ErrorDict("$%^&: " \o JSONDecodeErrorMessage)

\* the two strings weather_stream yields
StatusEvent == "data: ********...\n\n"
PayloadEvent(weather_data) == "data: " \o JsonDumps(weather_data) \o "\n\n"

\* the status of an EventSourceResponse
StreamStatus == 200

NoOutcome == [kind |-> "", status_code |-> 0, body |-> "", type |-> "", message |-> ""]

NoRequest ==
    [pc |-> "none", city |-> "", status_code |-> 0, events |-> <<>>,
     upstreamCalls |-> 0, outcome |-> NoOutcome, weather_data |-> Unset]

\* GetWeather, if the handler sent the upstream GET before it streamed
GetWeatherEagerFetch(r, city) ==
    /\ gw[r].pc = "none"
    /\ \A q \in Requests : q < r => gw[q].pc # "none"
    /\ gw' = [gw EXCEPT ![r] = [@ EXCEPT !.pc = "responding", !.city = city,
                                         !.status_code = StreamStatus,
                                         !.upstreamCalls = @ + 1]]
    /\ UNCHANGED clientVars

\* GET /weather?city=...: the handler returns the streaming response
\* (requests are numbered in the order they arrive)
GetWeather(r, city) ==
    /\ gw[r].pc = "none"
    /\ \A q \in Requests : q < r => gw[q].pc # "none"
    /\ gw' = [gw EXCEPT ![r] = [@ EXCEPT !.pc = "responding", !.city = city,
                                         !.status_code = StreamStatus]]
    /\ UNCHANGED clientVars

\* weather_stream yields the status notice
WeatherStreamStatus(r) ==
    /\ gw[r].pc = "responding"
    /\ gw' = [gw EXCEPT ![r] = [@ EXCEPT !.pc = "status_sent",
                                         !.events = Append(@, StatusEvent)]]
    /\ UNCHANGED clientVars

\* weather_stream is resumed and fetch_weather sends its GET
WeatherStreamFetch(r) ==
    /\ gw[r].pc = "status_sent"
    /\ gw' = [gw EXCEPT ![r] = [@ EXCEPT !.pc = "AwaitingUpstream",
                                         !.upstreamCalls = @ + 1]]
    /\ UNCHANGED clientVars

\* WeatherStreamPayload, if it yielded nothing for a failed fetch
WeatherStreamPayloadSkipError(r, outcome) ==
    /\ gw[r].pc = "AwaitingUpstream"
    /\ LET weather_data == FetchWeather(outcome) IN
       gw' = [gw EXCEPT ![r] = [@ EXCEPT !.pc = "payload_sent",
                                         !.outcome = outcome,
                                         !.weather_data = weather_data,
                                         !.events =
                                            IF DictHas(weather_data, "error") THEN @
                                            ELSE Append(@, PayloadEvent(weather_data))]]
    /\ UNCHANGED clientVars

\* the GET of fetch_weather ends; weather_stream yields the payload
WeatherStreamPayload(r, outcome) ==
    /\ gw[r].pc = "AwaitingUpstream"
    /\ LET weather_data == FetchWeather(outcome) IN
       gw' = [gw EXCEPT ![r] = [@ EXCEPT !.pc = "payload_sent",
                                         !.outcome = outcome,
                                         !.weather_data = weather_data,
                                         !.events = Append(@, PayloadEvent(weather_data))]]
    /\ UNCHANGED clientVars

\* WeatherStreamEnd, if the stream were left open after an error payload
WeatherStreamEndUnlessError(r) ==
    /\ gw[r].pc = "payload_sent"
    /\ ~DictHas(gw[r].weather_data, "error")
    /\ gw' = [gw EXCEPT ![r] = [@ EXCEPT !.pc = "closed"]]
    /\ UNCHANGED clientVars

\* weather_stream is resumed and ends: the stream is closed
WeatherStreamEnd(r) ==
    /\ gw[r].pc = "payload_sent"
    /\ gw' = [gw EXCEPT ![r] = [@ EXCEPT !.pc = "closed"]]
    /\ UNCHANGED clientVars

(***************************************************************************)
(* Specifications                                                          *)
(***************************************************************************)
Init ==
    /\ pc = [p \in Tasks |-> "idle"]
    /\ query = [p \in Tasks |-> ""]
    /\ listed = [p \in Tasks |-> <<>>]
    /\ completions = [p \in Tasks |-> <<>>]
    /\ messages = [p \in Tasks |-> <<>>]
    /\ content = [p \in Tasks |-> NoChoice]
    /\ args = [p \in Tasks |-> Unset]
    /\ response = [p \in Tasks |-> NoResponse]
    /\ linesRead = [p \in Tasks |-> 0]
    /\ result = [p \in Tasks |-> Unset]
    /\ returned = [p \in Tasks |-> Unset]
    /\ raised = [p \in Tasks |-> NoException]
    /\ modelCalls = [p \in Tasks |-> <<>>]
    /\ gatewayCalls = [p \in Tasks |-> <<>>]
    /\ lastInput = ""
    /\ printed = NothingPrinted
    /\ previous = ""
    /\ gw = [r \in Requests |-> NoRequest]

\* the client: the queries of one chat_loop, against any model and any
\* Gateway behaviour
Next ==
    \/ \E line \in InputLines : ChatLoopRead(line)
    \/ \E choice \in FirstChoices : FirstCompletion(ChatTask, choice)
    \/ \E resp \in GatewayResponses : GatewayResponse(ChatTask, resp)
    \/ \E error \in TransportErrors : GatewayUnreachable(ChatTask, error)
    \/ \E error \in ModelErrors : ModelError(ChatTask, error)
    \/ \E choice \in FinalChoices : FinalCompletion(ChatTask, choice)
    \/ ChatLoopNext(ChatTask)

Spec == Init /\ [][Next]_vars

\* process_query is called on a task of the event loop, outside chat_loop
Invoke(p, text) ==
    /\ ProcessQuery(p, text)
    /\ UNCHANGED loopVars

\* two process_query calls on one client, interleaved at their awaits; a
\* call that returned or raised is over
NextConcurrent ==
    \/ \E p \in Tasks, text \in Queries : Invoke(p, text)
    \/ \E p \in Tasks, choice \in ConcurrentFirstChoices : FirstCompletion(p, choice)
    \/ \E p \in Tasks, resp \in ConcurrentResponses : GatewayResponse(p, resp)
    \/ \E p \in Tasks, error \in TransportErrors : GatewayUnreachable(p, error)
    \/ \E p \in Tasks, error \in ModelErrors : ModelError(p, error)
    \/ \E p \in Tasks, choice \in FinalChoices : FinalCompletion(p, choice)

SpecConcurrent == Init /\ [][NextConcurrent]_vars

\* re.split on line ends: the pieces of s between its "\n"
RECURSIVE SplitLines(_)
SplitLines(s) ==
    LET ends == PositionsOf(s, 1, {"\n"}) IN
    IF ends = {} THEN <<s>>
    ELSE LET j == Least(ends) IN
         <<SubSeq(s, 1, j - 1)>> \o SplitLines(SubSeq(s, j + 1, Len(s)))

\* the lines EventSourceResponse sends for an item of its generator that is
\* a str: ServerSentEvent(str(item)).encode() writes a data field for every
\* piece of the item, then the blank line that ends the event
ServerSentEventLines(item) ==
    LET pieces == SplitLines(item) IN
    [i \in 1..Len(pieces) |-> "data: " \o pieces[i]] \o <<"">>

\* the lines of the body of the response, as aiter_lines gives them
RECURSIVE BodyLines(_)
BodyLines(events) ==
    IF events = <<>> THEN <<>>
    ELSE ServerSentEventLines(Head(events)) \o BodyLines(Tail(events))

\* the GET of call_tool reaches the Gateway (call_tool sends one GET, and
\* the process_query of this specification is the Gateway's only caller)
CallToolConnects(p, r) ==
    /\ pc[p] = "AwaitingGateway"
    /\ \A q \in Requests : gw[q].pc = "none"
    /\ GetWeather(r, gatewayCalls[p][Len(gatewayCalls[p])].city)

\* the GET of call_tool (not a streaming one) returns once the body is
\* complete, that is when the Gateway has closed the stream
CallToolReceives(p, r) ==
    /\ gw[r].pc = "closed"
    /\ GatewayResponse(p, [status_code |-> gw[r].status_code,
                           lines |-> BodyLines(gw[r].events)])

\* one process_query against the Gateway of server.py.  The second
\* completion is not among the steps: no line of the body decodes, so it is
\* never requested
NextLinked ==
    \/ \E text \in Queries : Invoke(ChatTask, text)
    \/ \E choice \in ConcurrentFirstChoices : FirstCompletion(ChatTask, choice)
    \/ \E error \in ModelErrors : ModelError(ChatTask, error)
    \/ \E r \in Requests : CallToolConnects(ChatTask, r)
    \/ \E r \in Requests : WeatherStreamStatus(r)
    \/ \E r \in Requests : WeatherStreamFetch(r)
    \/ \E r \in Requests, outcome \in UpstreamOutcomes : WeatherStreamPayload(r, outcome)
    \/ \E r \in Requests : WeatherStreamEnd(r)
    \/ \E r \in Requests : CallToolReceives(ChatTask, r)
    \/ \E error \in TransportErrors : GatewayUnreachable(ChatTask, error)

SpecLinked == Init /\ [][NextLinked]_vars

\* the Gateway: its requests, against any upstream behaviour
NextGateway ==
    \/ \E r \in Requests, city \in Cities : GetWeather(r, city)
    \/ \E r \in Requests : WeatherStreamStatus(r)
    \/ \E r \in Requests : WeatherStreamFetch(r)
    \/ \E r \in Requests, outcome \in UpstreamOutcomes : WeatherStreamPayload(r, outcome)
    \/ \E r \in Requests : WeatherStreamEnd(r)

SpecGateway == Init /\ [][NextGateway]_vars

\* the upstream GET of fetch_weather does not stay pending for ever: it
\* returns, fails or runs into its timeout
UpstreamComesBack(r) == []<>(gw[r].pc # "AwaitingUpstream")

\* the Gateway on its event loop: a generator that can be resumed is resumed
FairGateway ==
    \A r \in Requests :
        /\ WF_vars(WeatherStreamStatus(r))
        /\ WF_vars(WeatherStreamFetch(r))
        /\ UpstreamComesBack(r)
        /\ WF_vars(WeatherStreamEnd(r))

SpecGatewayFair == Init /\ [][NextGateway]_vars /\ FairGateway

TypeOK ==
    /\ \A p \in Tasks :
        pc[p] \in {"idle", "AwaitingFirstCompletion", "AwaitingGateway",
                   "AwaitingFinalCompletion", "returned", "raised", "exited"}
    /\ \A r \in Requests :
        gw[r].pc \in {"none", "responding", "status_sent", "AwaitingUpstream",
                      "payload_sent", "closed"}
(***************************************************************************)
(* Properties of process_query and call_tool (specification Spec)          *)
(***************************************************************************)
\* the tool call process_query takes from the first choice
DispatchedCall(p) == content[p].message.tool_calls[1]

\* the argument object the model generated, before call_tool touches it
RawArgs(p) == JsonLoads(DispatchedCall(p).function.arguments)

\* process_query has taken the tool branch with an argument object
HasArgObject(p) ==
    /\ content[p].finish_reason = "tool_calls"
    /\ RawArgs(p).ok
    /\ RawArgs(p).val.kind = "dict"

CityKeys == {"city", "city_name", "location"}

\* C1: when the first completion stops for a tool call and the tool call
\* succeeds, the second completion is asked with the conversation
\* <<user message, assistant tool-call message, tool message tagged with the
\* id of the dispatched call>>, and process_query returns that completion's
\* text.
C1_ToolRoundTrip ==
    \A p \in Tasks :
        (content[p].finish_reason = "tool_calls" /\ result[p] # Unset) =>
            /\ Len(modelCalls[p]) = 2
            /\ LET conversation == modelCalls[p][2].messages IN
               /\ Len(conversation) = 3
               /\ conversation[1] = [role |-> "user", content |-> PyStr(query[p])]
               /\ conversation[2] = content[p].message
               /\ conversation[3].role = "tool"
               /\ conversation[3].tool_call_id = DispatchedCall(p).id
            /\ pc[p] \in {"AwaitingFinalCompletion", "returned", "raised"}
            /\ pc[p] = "raised" => raised[p].type \in ModelErrors
            /\ (pc[p] = "returned" \/ Len(completions[p]) = 2) =>
                   /\ pc[p] = "returned"
                   /\ Len(completions[p]) = 2
                   /\ returned[p] = completions[p][2].message.content

C1_Witness ==
    \E p \in Tasks :
        /\ pc[p] = "returned"
        /\ content[p].finish_reason = "tool_calls"
        /\ Len(content[p].message.tool_calls) = 2
        /\ result[p] = PyDict(<<Item("temp", PyInt(20))>>)
        /\ returned[p] = PyStr("It is 20 degrees in A")

\* C2: when the first completion does not stop for a tool call,
\* process_query returns its text after that one model call, with no request
\* to the Gateway and the conversation still the user message alone.
C2_DirectAnswer ==
    \A p \in Tasks :
        content[p].finish_reason \notin {"", "tool_calls"} =>
            /\ pc[p] = "returned"
            /\ returned[p] = content[p].message.content
            /\ raised[p] = NoException
            /\ Len(modelCalls[p]) = 1
            /\ Len(completions[p]) = 1
            /\ gatewayCalls[p] = <<>>
            /\ messages[p] = <<[role |-> "user", content |-> PyStr(query[p])]>>

C2_Witness ==
    \E p \in Tasks :
        /\ pc[p] = "returned"
        /\ content[p].finish_reason = "length"
        /\ Len(content[p].message.tool_calls) = 1
        /\ returned[p] = PyStr("It is")

\* C3: an argument object with none of city, city_name, location makes
\* call_tool fail with the missing-city ValueError without any request to the
\* Gateway; and every request sent to the Gateway carries the city of the
\* normalized arguments.
C3_NoCityNoDispatch ==
    \A p \in Tasks :
        HasArgObject(p) =>
            /\ DictKeys(RawArgs(p).val) \cap CityKeys = {} =>
                   /\ pc[p] = "raised"
                   /\ raised[p] = [type |-> "ValueError", message |-> MissingCityMessage]
                   /\ gatewayCalls[p] = <<>>
                   /\ response[p] = NoResponse
            /\ \A i \in 1..Len(gatewayCalls[p]) :
                   /\ "city" \in DictKeys(args[p])
                   /\ gatewayCalls[p][i].city = DictGet(args[p], "city")

C3_Witness ==
    \E p \in Tasks :
        /\ pc[p] = "raised"
        /\ HasArgObject(p)
        /\ DictKeys(RawArgs(p).val) = {"units"}
        /\ raised[p].type = "ValueError"

\* C4: an argument object with city_name or location and without city is
\* normalized to one whose city is the value of city_name if there is one,
\* else of location; that key is gone and every other item is as it was.
C4_SynonymRenamed ==
    \A p \in Tasks :
        LET raw == RawArgs(p).val
            source == IF "city_name" \in DictKeys(raw) THEN "city_name" ELSE "location"
        IN (/\ HasArgObject(p)
            /\ DictKeys(raw) \cap {"city_name", "location"} # {}
            /\ "city" \notin DictKeys(raw)) =>
               /\ DictKeys(args[p]) = (DictKeys(raw) \ {source}) \cup {"city"}
               /\ DictGet(args[p], "city") = DictGet(raw, source)
               /\ \A k \in DictKeys(raw) \ {source} : DictGet(args[p], k) = DictGet(raw, k)
               /\ Len(args[p].items) = Cardinality(DictKeys(args[p]))
               /\ Len(gatewayCalls[p]) = 1
               /\ gatewayCalls[p][1].city = DictGet(raw, source)

C4_Witness ==
    \E p \in Tasks :
        /\ HasArgObject(p)
        /\ DictKeys(RawArgs(p).val) = {"city_name", "location", "units"}
        /\ DictKeys(args[p]) = {"city", "location", "units"}
        /\ gatewayCalls[p] = <<[city |-> PyStr("B")]>>

\* C5: for an argument object that has city, the city sent to the Gateway is
\* that city, whatever synonyms the object has too.
C5_CityKept ==
    \A p \in Tasks :
        (HasArgObject(p) /\ "city" \in DictKeys(RawArgs(p).val)) =>
            \A i \in 1..Len(gatewayCalls[p]) :
                gatewayCalls[p][i].city = DictGet(RawArgs(p).val, "city")

\* the payload of a data line, and whether the line carries one that decodes
DataOf(line) == Strip(SubSeq(line, Len("data:") + 1, Len(line)))

Decodable(line) ==
    /\ StartsWith(line, "data:")
    /\ DataOf(line) # ""
    /\ JsonLoads(DataOf(line)).ok

Is2xx(status_code) == status_code \in 200..299

\* C6: of a 2xx response, call_tool returns the decoded value of the first
\* line that has the data prefix, is not empty once the prefix is cut and the
\* rest trimmed, and decodes as JSON; the lines before it are skipped and the
\* lines after it are not read.
C6_FirstDecodableLineWins ==
    \A p \in Tasks :
        Is2xx(response[p].status_code) =>
            \A i \in 1..Len(response[p].lines) :
                (/\ Decodable(response[p].lines[i])
                 /\ \A j \in 1..(i - 1) : ~Decodable(response[p].lines[j])) =>
                    /\ result[p] = JsonLoads(DataOf(response[p].lines[i])).val
                    /\ linesRead[p] = i
                    /\ raised[p] = NoException \/ raised[p].type \in ModelErrors

C6_Witness ==
    \E p \in Tasks :
        /\ response[p] = [status_code |-> 200,
                          lines |-> <<"data: ********...", "data: {\"temp\": 20}">>]
        /\ result[p] = PyDict(<<Item("temp", PyInt(20))>>)
        /\ linesRead[p] = 2

\* C7: of a 2xx response with no line that decodes, call_tool raises the
\* no-weather-data ValueError: nothing is returned and the Gateway is not
\* asked again.
C7_NoWeatherData ==
    \A p \in Tasks :
        (/\ Is2xx(response[p].status_code)
         /\ \A i \in 1..Len(response[p].lines) : ~Decodable(response[p].lines[i])) =>
            /\ pc[p] = "raised"
            /\ raised[p] = [type |-> "ValueError", message |-> NoWeatherDataMessage]
            /\ result[p] = Unset
            /\ returned[p] = Unset
            /\ Len(gatewayCalls[p]) = 1
            /\ Len(modelCalls[p]) = 1

C7_Witness ==
    \E p \in Tasks :
        /\ response[p] = [status_code |-> 200,
                          lines |-> <<"data: ********...", "data: data: {\"temp\": 23}">>]
        /\ pc[p] = "raised"
        /\ raised[p].message = NoWeatherDataMessage

\* C8: a response whose status is not 2xx makes call_tool raise the
\* HTTP-status error with no line of the body parsed and nothing returned,
\* whatever the body holds.
C8_HttpStatusError ==
    \A p \in Tasks :
        (response[p] # NoResponse /\ ~Is2xx(response[p].status_code)) =>
            /\ pc[p] = "raised"
            /\ raised[p].type = "HTTPStatusError"
            /\ linesRead[p] = 0
            /\ result[p] = Unset
            /\ returned[p] = Unset
            /\ Len(modelCalls[p]) = 1

C8_Witness ==
    \E p \in Tasks :
        /\ response[p] = [status_code |-> 301, lines |-> <<"data: {\"temp\": 20}">>]
        /\ pc[p] = "raised"
        /\ raised[p] = [type |-> "HTTPStatusError", message |-> "301"]

(***************************************************************************)
(* Properties of the Tool Gateway (specification SpecGateway)              *)
(***************************************************************************)
\* an event of the form "data: <JSON document>" and a blank line
IsPayloadEvent(event) ==
    /\ StartsWith(event, "data: ")
    /\ Len(event) >= 2
    /\ SubSeq(event, Len(event) - 1, Len(event)) = "\n\n"
    /\ JsonLoads(SubSeq(event, Len("data: ") + 1, Len(event) - 2)).ok

\* the upstream call did not give a JSON document with a 2xx status
UpstreamFailed(outcome) ==
    \/ outcome.kind = "exception"
    \/ ~Is2xx(outcome.status_code)
    \/ ~JsonLoads(outcome.body).ok

\* C9: whatever the upstream call comes to, the stream of a request is the
\* status event, then one payload event, and nothing more: never more than
\* these two, the status event first, and both sent once the stream is closed.
C9_StatusThenOnePayload ==
    \A r \in Requests :
        /\ Len(gw[r].events) <= 2
        /\ Len(gw[r].events) >= 1 => gw[r].events[1] = "data: ********...\n\n"
        /\ Len(gw[r].events) = 2 => IsPayloadEvent(gw[r].events[2])
        /\ gw[r].pc \in {"status_sent", "AwaitingUpstream"} => Len(gw[r].events) = 1
        /\ gw[r].pc \in {"payload_sent", "closed"} => Len(gw[r].events) = 2

C9_Witness ==
    \E r \in Requests :
        /\ gw[r].pc = "closed"
        /\ gw[r].outcome.kind = "exception"
        /\ gw[r].outcome.type = "ReadTimeout"
        /\ Len(gw[r].events) = 2

C11_FailuresCaught ==
    [][/\ pc[ChatTask] = "raised" =>
              /\ pc'[ChatTask] = "idle"
              /\ printed' = [kind |-> "error", text |-> raised[ChatTask].message]
       /\ pc'[ChatTask] = "exited" =>
              /\ pc[ChatTask] = "idle"
              /\ lastInput' \in {"quit", " Quit "}]_vars

C11_Witness ==
    /\ pc[ChatTask] = "idle"
    /\ printed = [kind |-> "error", text |-> NoWeatherDataMessage]

(***************************************************************************)
(* Properties of list_tools (specification Spec)                           *)
(***************************************************************************)
\* C12: whatever went before, each call of list_tools returns the same
\* catalog: one tool, named query_weather, whose input schema has type
\* object, a properties map that declares city, as a string, and required
\* equal to [city]; the call changes nothing else, so the first completion
\* is asked with exactly that tool.
C12_SameCatalog ==
    \A p \in Tasks :
        pc[p] \notin {"idle", "exited"} =>
            /\ Len(listed[p]) = 1
            /\ listed[p][1].name = "query_weather"
            /\ listed[p][1].inputSchema.type = "object"
            /\ DOMAIN listed[p][1].inputSchema.properties = {"city"}
            /\ listed[p][1].inputSchema.properties.city.type = "string"
            /\ listed[p][1].inputSchema.required = <<"city">>
            /\ \A q \in Tasks : pc[q] \notin {"idle", "exited"} => listed[q] = listed[p]
            /\ Len(modelCalls[p][1].tools) = 1
            /\ modelCalls[p][1].tools[1].function.name = listed[p][1].name
            /\ modelCalls[p][1].tools[1].function.input_schema = listed[p][1].inputSchema

\* a later query of the loop, after one that failed, has listed the tools
C12_Witness ==
    /\ previous = "failed"
    /\ pc[ChatTask] = "AwaitingGateway"
    /\ Len(listed[ChatTask]) = 1

(***************************************************************************)
(* Further properties of process_query (specification Spec)                *)
(***************************************************************************)
\* C13: a process_query sends at most one request to the Gateway and makes
\* at most two model calls; the second call passes no tools, and what it
\* answers is returned as it is, with no further request to the Gateway, also
\* when the answer is itself a tool call.
C13_OneRoundTrip ==
    \A p \in Tasks :
        /\ Len(gatewayCalls[p]) <= 1
        /\ Len(modelCalls[p]) <= 2
        /\ Len(modelCalls[p]) = 2 =>
               /\ modelCalls[p][2].tools = <<>>
               /\ Len(gatewayCalls[p]) = 1
        /\ Len(completions[p]) = 2 =>
               /\ pc[p] = "returned"
               /\ returned[p] = completions[p][2].message.content
               /\ Len(gatewayCalls[p]) = 1
               /\ Len(modelCalls[p]) = 2

C13_Witness ==
    \E p \in Tasks :
        /\ pc[p] = "returned"
        /\ Len(completions[p]) = 2
        /\ completions[p][2].finish_reason = "tool_calls"
        /\ returned[p] = PyNone
        /\ Len(gatewayCalls[p]) = 1

\* C14: a tool call whose argument payload is not JSON makes process_query
\* raise the decoding error before call_tool runs: the arguments are never
\* normalized, no request goes to the Gateway, the conversation stays the
\* user message alone and no second completion is requested.
C14_MalformedArguments ==
    \A p \in Tasks :
        (/\ content[p].finish_reason = "tool_calls"
         /\ DispatchedCall(p).function.arguments \in {"", "{city: A}", "{\"city\": \"A\""}) =>
            /\ pc[p] = "raised"
            /\ raised[p].type = "JSONDecodeError"
            /\ args[p] = Unset
            /\ gatewayCalls[p] = <<>>
            /\ messages[p] = <<[role |-> "user", content |-> PyStr(query[p])]>>
            /\ Len(modelCalls[p]) = 1
            /\ returned[p] = Unset

C14_Witness ==
    \E p \in Tasks :
        /\ pc[p] = "raised"
        /\ DispatchedCall(p).function.arguments = "{\"city\": \"A\""
        /\ raised[p].type = "JSONDecodeError"

\* C15: the content of every tool message of a conversation is a text
\* string, never a decoded JSON value.  The source appends the value that
\* json.loads returned (an object, a number, ...), so this does not hold.
C15_ToolContentIsText ==
    \A p \in Tasks :
        \A i \in 1..Len(messages[p]) :
            messages[p][i].role = "tool" => messages[p][i].content.kind = "str"

\* C16: whatever queries ran before on the client and however they ended,
\* the conversation sent with the first completion request of a query is one
\* message, the user message holding that query's text, and the conversation
\* of the query holds no other user message.
C16_FreshConversation ==
    \A p \in Tasks :
        pc[p] \notin {"idle", "exited"} =>
            /\ Len(modelCalls[p]) >= 1
            /\ modelCalls[p][1].messages = <<[role |-> "user", content |-> PyStr(query[p])]>>
            /\ messages[p][1] = [role |-> "user", content |-> PyStr(query[p])]
            /\ \A i \in 2..Len(messages[p]) : messages[p][i].role # "user"
            /\ p = ChatTask => query[p] = Strip(lastInput)

C16_Witness ==
    /\ previous = "answered with the tool"
    /\ pc[ChatTask] = "AwaitingFirstCompletion"
    /\ query[ChatTask] = "hi"
    /\ modelCalls[ChatTask][1].messages = <<[role |-> "user", content |-> PyStr("hi")]>>

\* C17: given that the upstream GET returns or times out, every request the
\* Gateway accepted leads to a closed event stream whose last event is the
\* payload of that request.
C17_StreamTerminates ==
    \A r \in Requests :
        (gw[r].pc = "responding") ~>
            (/\ gw[r].pc = "closed"
             /\ Len(gw[r].events) = 2
             /\ gw[r].events[2] = PayloadEvent(gw[r].weather_data))

C17_Witness ==
    \E r \in Requests :
        /\ gw[r].pc = "closed"
        /\ gw[r].outcome = UpstreamException("ReadTimeout", "")
        /\ gw[r].events = <<StatusEvent, PayloadEvent(gw[r].weather_data)>>

\* C19: a Gateway request sends the upstream GET once and never again,
\* whatever its outcome, and sends it only after the status notice has been
\* yielded as the first event of the stream.
C19_OneUpstreamCall ==
    \A r \in Requests :
        /\ gw[r].upstreamCalls <= 1
        /\ gw[r].pc \in {"none", "responding", "status_sent"} => gw[r].upstreamCalls = 0
        /\ gw[r].pc \in {"AwaitingUpstream", "payload_sent", "closed"} =>
               gw[r].upstreamCalls = 1
        /\ gw[r].upstreamCalls = 1 =>
               /\ Len(gw[r].events) >= 1
               /\ gw[r].events[1] = StatusEvent
        /\ gw[r].pc = "status_sent" => gw[r].events = <<StatusEvent>>

C19_Witness ==
    \E r \in Requests :
        /\ gw[r].pc = "closed"
        /\ gw[r].outcome = UpstreamException("ConnectError", "All connection attempts failed")
        /\ gw[r].upstreamCalls = 1
        /\ gw[r].events[1] = StatusEvent

\* C18: with two process_query calls interleaved in any way, the
\* conversation of each holds its own user message and, after the tool call,
\* its own assistant message and a tool message with its own call id and its
\* own result, and each returns the content of its own last completion, as
\* it does when it runs alone.
C18_NoSharedState ==
    \A p \in Tasks :
        pc[p] # "idle" =>
            /\ messages[p][1] = [role |-> "user", content |-> PyStr(query[p])]
            /\ modelCalls[p][1].messages = <<messages[p][1]>>
            /\ Len(messages[p]) \in {1, 3}
            /\ Len(messages[p]) = 3 =>
                   /\ messages[p][2] = completions[p][1].message
                   /\ messages[p][3].role = "tool"
                   /\ messages[p][3].tool_call_id = completions[p][1].message.tool_calls[1].id
                   /\ messages[p][3].content = ParseLines(response[p].lines, 1).value
                   /\ modelCalls[p][2].messages = messages[p]
            /\ pc[p] = "returned" =>
                   returned[p] = completions[p][Len(completions[p])].message.content
            /\ Len(completions[p]) = 2 <=> (pc[p] = "returned" /\ Len(messages[p]) = 3)

C18_Witness ==
    /\ pc["chat_loop"] = "AwaitingFinalCompletion"
    /\ pc["other"] = "returned"
    /\ Len(messages["other"]) = 3
    /\ query["chat_loop"] # query["other"]
    /\ messages["chat_loop"][3].tool_call_id = "call_1"
    /\ messages["other"][3].tool_call_id = "call_2"
    /\ messages["chat_loop"][3].content # messages["other"][3].content

\* C20: when the upstream call of the Gateway failed, the call_tool that
\* received the Gateway's response returns the error object as its result
\* and process_query goes on to the second completion; it does not raise.
\* The body the client reads carries each yielded "data: ..." string inside
\* a data field of its own, so no line decodes and call_tool raises.
C20_UpstreamFailureAnswered ==
    \A p \in Tasks : \A r \in Requests :
        (/\ gw[r].pc = "closed"
         /\ DictHas(gw[r].weather_data, "error")
         /\ response[p] # NoResponse) =>
            /\ pc[p] \in {"AwaitingFinalCompletion", "returned"}
            /\ raised[p] = NoException
            /\ result[p] = gw[r].weather_data

====
